---- MODULE Spec2Model ----
(***************************************************************************)
(* Model of pid_monitor: the tracer-dispatcher supervision engine          *)
(* (dt_mvc/std_dispatcher.py), the byte/ratio formatting of the frontend   *)
(* cache, and report generation (report.py).                               *)
(***************************************************************************)
EXTENDS Integers, Sequences, FiniteSets, TLC

\* ------------------------------------------------------------------ bounds
NProcs == 3        \* process ids 1..NProcs may exist during a run
MaxDisp == 4       \* dispatcher objects ever constructed (system + root + children)
MaxReading == 2    \* raw CPU-time readings are drawn from 0..MaxReading
MaxCycles == 2     \* the root Dispatcher's cycle counter saturates here
MaxBytes == 2      \* memory pollers report 512 * (0..MaxBytes) bytes
MaxNum == 1100     \* _to_human_readable is applied to 0..MaxNum (and around powers of the base)
MaxReportPid == 3  \* make_all_report is called with a subset of 0..MaxReportPid
MaxRetCode == 1    \* the report renderer exits with a code in 0..MaxRetCode
PoolSize == 2      \* jobs the Job Pool runs at the same time
MaxLimbs == 8      \* _to_human_readable is applied to inputs of up to MaxLimbs base-b digits
NCores == 2        \* psutil.cpu_count(): logical cores of the machine
MaxFiles == 2      \* *.tsv files in the directory given to ResamplerConfig.from_dir
MaxTime == 3       \* timestamps of the logs are 1.0, 1.1, .. in steps of 0.1 s, MaxTime of them
MaxProbes == 3     \* probes of SystemCPUTracerThread in a run

\* ------------------------------------------------------- program constants
DEFAULT_SYSTEM_INDICATOR_PID == 0   \* the system entity's id (report.py tests this_pid == 0)
RootPid == 1                        \* the process the root Dispatcher is attached to
NoDisp == 0                         \* "no dispatcher": absent from the registry
NoFile == -1                        \* the .cputime file does not exist

Pids == 1..NProcs
Ids == 0..NProcs
Readings == 0..MaxReading

VARIABLES
    initTree,    \* the processes that exist when monitoring starts (never changes)
    pstate,      \* pid -> "unborn" | "alive" | "exited"                   (the OS)
    parent,      \* pid -> parent pid (0: a process that is not monitored)  (the OS)
    cpu,         \* pid -> the total CPU time the OS reports now           (the OS)
    disp,        \* sequence of dispatcher objects, in construction order
    registry,    \* dispatcher_controller: id -> index into disp, or NoDisp
    mutex,       \* _DISPATCHER_MUTEX: index of the holder, or NoDisp
    cputime,     \* pid -> content of <basename>.<pid>.cputime, or NoFile
    allPids,     \* _ALL_PIDS
    cycles,      \* supervision cycles the root Dispatcher has completed
    vmInfo,      \* SystemMEMTracerThread's cached <<avail, total, buffered, shared>>
    swapInfo,    \* SystemSWAPTracerThread's cached <<avail, total>>
    sysCpu,      \* SystemCPUTracerThread's cached per-core percentages
    sysRead,     \* what the last _update_cache of the system Dispatcher pulled
    sysMnt,      \* how many times <basename>.mnt.tsv has been written
    sysRegs,     \* how many times the system id has been registered
    hrOut,       \* the last call of _to_human_readable: arguments and outcome
    cpuTracer,   \* SystemCPUTracerThread: header, appended rows, cached mean, clock
    rsc,         \* the last call of ResamplerConfig.from_dir: directory and outcome
    regMutex,    \* _REG_MUTEX: index of the Dispatcher whose thread holds it, or NoDisp
    refresh,     \* dispatcher -> the assignments its running _update_cache has done
    rPc,         \* make_all_report: "idle" | "call" | "appended" | "started" | "returned"
    rPids,       \* make_all_report: the caller's set all_pids
    rJobs,       \* pid -> the _MakeIndividualReportThread submitted for it
    rQueue,      \* make_all_report: the ids appended to the ParallelJobQueue, in order
    rGiven       \* make_all_report: the content of all_pids when it was called

dvars == <<initTree, pstate, parent, cpu, disp, registry, mutex, cputime, allPids, cycles>>
svars == <<vmInfo, swapInfo, sysCpu, sysRead, sysMnt, sysRegs>>
hvars == <<hrOut>>
tvars == <<cpuTracer, rsc, regMutex, refresh>>
rvars == <<rPc, rPids, rJobs, rQueue, rGiven>>
vars == <<dvars, svars, hvars, tvars, rvars>>

\* -------------------------------------------------------------- the OS side
Alive(p) == pstate[p] = "alive"

\* psutil.Process.children(): the live direct children, in pid order
RECURSIVE SetToSeq(_)
SetToSeq(S) ==
    IF S = {} THEN <<>>
    ELSE LET m == CHOOSE x \in S : \A y \in S : x <= y
         IN <<m>> \o SetToSeq(S \ {m})

Children(p) == SetToSeq({c \in Pids : Alive(c) /\ parent[c] = p})

SetMax(S) == CHOOSE x \in S : \A y \in S : y <= x

\* -------------------------------------------------------------- formatting
RECURSIVE Pow(_, _)
Pow(b, k) == IF k = 0 THEN 1 ELSE b * Pow(b, k - 1)

RECURSIVE SeqSum(_)
SeqSum(q) == IF q = <<>> THEN 0 ELSE Head(q) + SeqSum(Tail(q))

\* round(x, 2) of x = num / den, in hundredths; ties go to the even neighbour
RoundHalfEven(num, den) ==
    LET q == num \div den
        r == num % den
    IN IF 2 * r > den THEN q + 1
       ELSE IF 2 * r = den THEN q + (q % 2)
       ELSE q

\* str() of a float given in hundredths: at least one decimal, no trailing zero
FloatStr(h) ==
    LET ip == h \div 100
        f == h % 100
    IN ToString(ip) \o "." \o
         (IF f % 10 = 0 THEN ToString(f \div 10)
          ELSE IF f < 10 THEN "0" \o ToString(f)
          ELSE ToString(f))

\* lines 25-28: dc_list
dc_list(base) ==
    IF base = 1024 THEN <<"B", "KiB", "MiB", "GiB", "TiB", "PiB", "EiB">>
    ELSE <<"B", "KB", "MB", "GB", "TB", "PB", "EB">>

\* A magnitude of any size is held as its base-b digits, least significant
\* first and without leading zeros, so that inputs beyond the last unit can be
\* written down; after step divisions the digits below position step are the
\* fraction of num.
RECURSIVE ToLimbs(_, _)
ToLimbs(num, base) ==
    IF num = 0 THEN <<>> ELSE <<num % base>> \o ToLimbs(num \div base, base)

\* line 33 with ">=" in the place of ">"
hr_exceeds_or_equals(q, base, step) == Len(q) - step >= 2

\* line 35, "num /= base": the quotient is a float of 53 significant bits.
\* Next to a leading digit 1, a digit fewer than 6 places below it is kept;
\* the digit 6 places below is kept when it is above half a unit in the last
\* place of the first quotient (0.125 * 1024 for base 1024, 0.0625 * 1000 for
\* base 1000); what lies further below is lost.
float_keeps(q, base, i) ==
    LET dist == Len(q) - i
    IN \/ dist < 6
       \/ dist = 6 /\ q[i] > (IF base = 1024 THEN 128 ELSE 62)

\* line 33: "num > base", num being the input divided by base step times.
\* base is the two-digit number <<0, 1>>.
hr_exceeds(q, base, step) ==
    LET n == Len(q) - step
    IN \/ n >= 3
       \/ n = 2 /\ \/ q[Len(q)] > 1
                   \/ \E i \in 1..(Len(q) - 1) : q[i] > 0 /\ float_keeps(q, base, i)

\* lines 31-36: the while loop; every iteration advances step and divides
RECURSIVE hr_steps(_, _, _)
hr_steps(q, base, step) ==
    IF hr_exceeds(q, base, step) /\ step < Len(dc_list(base)) - 1
      THEN hr_steps(q, base, step + 1)
      ELSE step

\* lines 25-36: the scaling of a magnitude given by its digits
hr_scale(q, base) ==
    IF base \notin {1000, 1024}
      THEN [error |-> "ValueError", step |-> 0, dc |-> ""]
    ELSE LET step == hr_steps(q, base, 0)
         IN [error |-> "", step |-> step, dc |-> dc_list(base)[step + 1]]

\* _to_human_readable, lines 21-38.  An int that was never divided prints as
\* an int; after a division num is a float.
_to_human_readable(num, base) ==
    IF base \notin {1000, 1024}
      THEN [error |-> "ValueError", step |-> 0, text |-> ""]
    ELSE LET sc == hr_scale(ToLimbs(num, base), base)
         IN [error |-> "",
             step |-> sc.step,
             text |-> IF sc.step = 0 THEN ToString(num) \o sc.dc
                      ELSE FloatStr(RoundHalfEven(num * 100, Pow(base, sc.step))) \o sc.dc]

\* ------------------------------------------------------- dispatcher objects
DispIds == 1..Len(disp)

\* The spec's RUNNING / CHILD_SCAN / TERMINATING phases: the thread is alive.
RunningPcs == {"loop", "lock", "scan", "attach", "term", "join", "ending"}
IsRunning(d) == disp[d].pc \in RunningPcs

\* _setup_cache, lines 259-270
SysSetupCache ==
    [k \in {"CPU%", "VM_AVAIL", "VM_TOTAL", "VM_PERCENT", "BUFFERED", "SHARED",
            "SWAP_AVAIL", "SWAP_TOTAL", "SWAP_PERCENT"} |-> "NA"]

\* _setup_cache, lines 204-219; process.name() is the process's name
ProcSetupCache(pid, ppid) ==
    [k \in {"PID", "PPID", "NAME", "CPU%", "STAT", "CPU_TIME", "RESIDENT_MEM",
            "NUM_THREADS", "NUM_CHILD_PROCESS"} |->
       IF k = "PID" THEN ToString(pid)
       ELSE IF k = "PPID" THEN ToString(ppid)
       ELSE IF k = "NAME" THEN "proc" \o ToString(pid)
       ELSE IF k = "CPU_TIME" THEN ToString(0)
       ELSE "NA"]

NewDispatcher(kind, pid, pc, tracers, cache) ==
    [kind |-> kind, pid |-> pid, pc |-> pc, should_exit |-> FALSE,
     cached |-> 0, seen |-> {}, last |-> 0, todo |-> <<>>,
     tracers |-> tracers, creator |-> NoDisp, frontend |-> cache]

\* ----------------------------------------------------------- the registry
get_current_active_pids == {i \in Ids : registry[i] # NoDisp}

register_dispatcher(reg, pid, d) == [reg EXCEPT ![pid] = d]

remove_dispatcher(reg, pid) == [reg EXCEPT ![pid] = NoDisp]

\* ------------------------------------------------------------------- Init
\* After main has constructed and started the system Dispatcher and the root
\* Dispatcher.  The root process starts alone or with two children.
InitTrees == {{RootPid}, {RootPid, 2, 3}}

InitDispatchersIn(trees) ==
    /\ initTree \in trees
    /\ pstate = [p \in Pids |-> IF p \in initTree THEN "alive" ELSE "unborn"]
    /\ cpu = [p \in Pids |-> 0]
    /\ cycles = 0
    /\ parent = [p \in Pids |-> IF p = RootPid THEN 0 ELSE RootPid]
    /\ disp = << NewDispatcher("sys", DEFAULT_SYSTEM_INDICATOR_PID, "loop", "started",
                               SysSetupCache),
                 NewDispatcher("proc", RootPid, "loop", "started",
                               ProcSetupCache(RootPid, 0)) >>
    /\ registry = [i \in Ids |-> IF i = DEFAULT_SYSTEM_INDICATOR_PID THEN 1
                                 ELSE IF i = RootPid THEN 2 ELSE NoDisp]
    /\ mutex = NoDisp
    /\ regMutex = NoDisp
    /\ refresh = [d \in 1..MaxDisp |-> 0]
    /\ cputime = [p \in Pids |-> NoFile]
    /\ allPids = {RootPid}

InitDispatchers == InitDispatchersIn(InitTrees)

\* ------------------------------------------------------- environment steps
\* A live process forks a child with a fresh pid.
Spawn(p, c) ==
    /\ Alive(p)
    /\ pstate[c] = "unborn"
    /\ pstate' = [pstate EXCEPT ![c] = "alive"]
    /\ parent' = [parent EXCEPT ![c] = p]
    /\ UNCHANGED <<initTree, cpu, disp, registry, mutex, cputime, allPids, cycles>>
    /\ UNCHANGED <<svars, hvars, tvars, rvars>>

\* A process exits; its live children are re-parented to its own parent
\* (the nearest ancestor acting as sub-reaper, or a process outside the tree).
Exit(p) ==
    /\ Alive(p)
    /\ pstate' = [pstate EXCEPT ![p] = "exited"]
    /\ parent' = [c \in Pids |-> IF parent[c] = p /\ Alive(c) THEN parent[p] ELSE parent[c]]
    /\ UNCHANGED <<initTree, cpu, disp, registry, mutex, cputime, allPids, cycles>>
    /\ UNCHANGED <<svars, hvars, tvars, rvars>>

\* The OS-reported CPU time of a live process changes; readings are noisy and
\* may decrease.
CpuJitter(p, v) ==
    /\ Alive(p)
    /\ cpu[p] # v
    /\ cpu' = [cpu EXCEPT ![p] = v]
    /\ UNCHANGED <<initTree, pstate, parent, disp, registry, mutex, cputime, allPids, cycles>>
    /\ UNCHANGED <<svars, hvars, tvars, rvars>>

\* Global shutdown: the termination flag of every live dispatcher is set.
Shutdown ==
    /\ \E d \in DispIds : IsRunning(d) /\ ~disp[d].should_exit
    /\ disp' = [d \in DispIds |->
                  IF IsRunning(d) THEN [disp[d] EXCEPT !.should_exit = TRUE] ELSE disp[d]]
    /\ UNCHANGED <<initTree, pstate, parent, cpu, registry, mutex, cputime, allPids, cycles>>
    /\ UNCHANGED <<svars, hvars, tvars, rvars>>

\* ------------------------------------------ ProcessTracerDispatcherThread
\* get_total_cpu_time(self.process): fails with "entity gone" once the
\* process has exited (spec section 6, probe).
get_total_cpu_time_raises(pid) == ~Alive(pid)

\* run_body with "while True": the flag is never looked at
should_exit_unread(d) == FALSE

\* run_body lines 106 and 294: "while not self.should_exit", evaluated at the
\* top of each cycle
should_exit_read(d) == disp[d].should_exit

\* _update_cache, lines 224-227, with the cached value replaced by the reading
update_cpu_time_overwrite(cur, reading) == reading

\* _update_cache, lines 224-227: max(self._cached_last_cpu_time, reading)
update_cpu_time(cur, reading) == IF reading > cur THEN reading ELSE cur

\* __init__, line 68: register_dispatcher(trace_pid, self)
init_register(reg, pid, d) == register_dispatcher(reg, pid, d)

\* run_body without the with-block of line 109: nothing is ever waited for
dispatcher_mutex_ignored(holder) == TRUE

\* run_body, line 109: "with _DISPATCHER_MUTEX" blocks while another holds it
dispatcher_mutex_free(holder) == holder = NoDisp

\* The values the process pollers hold for _update_cache, lines 231-246
\* (get_cached_cpu_percent, get_cached_resident_mem,
\* get_cached_thread_child_process_num, get_cached_stat).
ProcPollerCache ==
    [cpu_percent |-> "0.0", resident_mem |-> 0, thread_child |-> <<1, 0>>, stat |-> "S"]

\* _update_cache, lines 228-246: the rewritten fields of the frontend cache
proc_update_cache(cache, cpu_time) ==
    [cache EXCEPT
       !["CPU_TIME"] = ToString(cpu_time),
       !["CPU%"] = ProcPollerCache.cpu_percent,
       !["RESIDENT_MEM"] = _to_human_readable(ProcPollerCache.resident_mem, 1024).text,
       !["NUM_THREADS"] = ToString(ProcPollerCache.thread_child[1]),
       !["NUM_CHILD_PROCESS"] = ToString(ProcPollerCache.thread_child[2]),
       !["STAT"] = ProcPollerCache.stat]

NextCycle(n) == IF n < MaxCycles THEN n + 1 ELSE n

\* run_body lines 106-107: test the flag, then _update_cache().  An
\* "entity gone" raised by the CPU-time read is outside the try of run_body:
\* it leaves run_body (and the thread) without reaching sigterm().
RunLoop(d) ==
    /\ d \in DispIds
    /\ disp[d].kind = "proc"
    /\ disp[d].pc = "loop"
    /\ IF should_exit_read(d)
         THEN disp' = [disp EXCEPT ![d].pc = "term"]
       ELSE IF get_total_cpu_time_raises(disp[d].pid)
         THEN disp' = [disp EXCEPT ![d].pc = "crashed"]
       ELSE LET r == cpu[disp[d].pid]
                new == update_cpu_time(disp[d].cached, r)
            IN disp' = [disp EXCEPT ![d].cached = new,
                                    ![d].frontend = proc_update_cache(@, new),
                                    ![d].seen = @ \cup {r},
                                    ![d].last = r,
                                    ![d].pc = "lock"]
    /\ UNCHANGED <<initTree, pstate, parent, cpu, registry, mutex, cputime, allPids, cycles>>
    /\ UNCHANGED <<svars, hvars, tvars, rvars>>

\* an _update_cache that stores the CPU percentage under a key of its own
proc_cache_assign_new_key(cache, k, cpu_time) ==
    IF k = 2 THEN ("CPU_PERCENT" :> ProcPollerCache.cpu_percent) @@ cache
    ELSE proc_update_cache(cache, cpu_time)

\* _update_cache, lines 228-246: its k-th assignment to an item of
\* self._frontend_cache
proc_cache_assign(cache, k, cpu_time) ==
    IF k = 1 THEN [cache EXCEPT !["CPU_TIME"] = ToString(cpu_time)]
    ELSE IF k = 2 THEN [cache EXCEPT !["CPU%"] = ProcPollerCache.cpu_percent]
    ELSE IF k = 3
      THEN [cache EXCEPT !["RESIDENT_MEM"] =
                            _to_human_readable(ProcPollerCache.resident_mem, 1024).text]
    ELSE IF k = 4 THEN [cache EXCEPT !["NUM_THREADS"] = ToString(ProcPollerCache.thread_child[1])]
    ELSE IF k = 5
      THEN [cache EXCEPT !["NUM_CHILD_PROCESS"] = ToString(ProcPollerCache.thread_child[2])]
    ELSE [cache EXCEPT !["STAT"] = ProcPollerCache.stat]

\* the number of item assignments of _update_cache, lines 228-246
ProcCacheAssigns == 6

\* run_body lines 106-107 and _update_cache lines 224-227, the cycle taken in
\* steps: test the flag, read the CPU time and keep the maximum.  The item
\* assignments follow one by one.
UpdateCacheBegin(d) ==
    /\ d \in DispIds
    /\ disp[d].kind = "proc"
    /\ disp[d].pc = "loop"
    /\ IF should_exit_read(d)
         THEN disp' = [disp EXCEPT ![d].pc = "term"]
       ELSE IF get_total_cpu_time_raises(disp[d].pid)
         THEN disp' = [disp EXCEPT ![d].pc = "crashed"]
       ELSE LET r == cpu[disp[d].pid]
            IN disp' = [disp EXCEPT ![d].cached = update_cpu_time(@, r),
                                    ![d].seen = @ \cup {r},
                                    ![d].last = r,
                                    ![d].pc = "refresh"]
    /\ UNCHANGED <<initTree, pstate, parent, cpu, registry, mutex, cputime, allPids, cycles>>
    /\ UNCHANGED <<svars, hvars, tvars, rvars>>

\* _update_cache lines 228-246: the next item assignment; after the last one
\* run_body goes on to the child scan.
UpdateCacheAssign(d) ==
    /\ d \in DispIds
    /\ disp[d].pc = "refresh"
    /\ LET k == refresh[d] + 1
       IN /\ disp' = [disp EXCEPT
                        ![d].frontend = proc_cache_assign(@, k, disp[d].cached),
                        ![d].pc = IF k = ProcCacheAssigns THEN "lock" ELSE "refresh"]
          /\ refresh' = [refresh EXCEPT ![d] = IF k = ProcCacheAssigns THEN 0 ELSE k]
    /\ UNCHANGED <<cpuTracer, rsc, regMutex>>
    /\ UNCHANGED <<initTree, pstate, parent, cpu, registry, mutex, cputime, allPids, cycles>>
    /\ UNCHANGED <<svars, hvars, rvars>>

\* run_body line 109 and _detect_process line 180: take _DISPATCHER_MUTEX and
\* enumerate the children.  children() of an exited process raises; the
\* with-block releases the mutex and run_body breaks out of its loop.
DetectBegin(d) ==
    /\ d \in DispIds
    /\ disp[d].pc = "lock"
    /\ dispatcher_mutex_free(mutex)
    /\ IF ~Alive(disp[d].pid)
         THEN /\ disp' = [disp EXCEPT ![d].pc = "term"]
              /\ UNCHANGED mutex
         ELSE /\ disp' = [disp EXCEPT ![d].pc = "scan",
                                      ![d].todo = Children(disp[d].pid)]
              /\ mutex' = d
    /\ UNCHANGED <<initTree, pstate, parent, cpu, registry, cputime, allPids, cycles>>
    /\ UNCHANGED <<svars, hvars, tvars, rvars>>

\* _detect_process line 181: is the next child already supervised?
DetectCheck(d) ==
    /\ d \in DispIds
    /\ disp[d].pc = "scan"
    /\ disp[d].todo # <<>>
    /\ IF Head(disp[d].todo) \in get_current_active_pids
         THEN disp' = [disp EXCEPT ![d].todo = Tail(@)]
         ELSE disp' = [disp EXCEPT ![d].pc = "attach"]
    /\ UNCHANGED <<initTree, pstate, parent, cpu, registry, mutex, cputime, allPids, cycles>>
    /\ UNCHANGED <<svars, hvars, tvars, rvars>>

\* _detect_process lines 183-185 with __init__ lines 67-96: construct, start
\* and keep a child Dispatcher.  register_dispatcher refuses an id that is
\* present; psutil.Process and the one-time writes raise "entity gone" when
\* the child has exited, after line 68 has registered it.
DetectAttach(d) ==
    /\ d \in DispIds
    /\ disp[d].pc = "attach"
    /\ LET c == Head(disp[d].todo)
           n == Len(disp) + 1
       IN IF registry[c] # NoDisp
            THEN \* DuplicateEntityError: not caught by _detect_process or run_body
                 /\ disp' = [disp EXCEPT ![d].pc = "crashed", ![d].todo = <<>>]
                 /\ mutex' = NoDisp
                 /\ UNCHANGED <<registry, allPids>>
          ELSE IF ~Alive(c)
            THEN \* lines 85-87 re-raise; lines 186-188 re-raise; line 111 breaks
                 /\ n <= MaxDisp
                 /\ disp' = Append([disp EXCEPT ![d].pc = "term", ![d].todo = <<>>],
                                   [NewDispatcher("proc", c, "failed", "none",
                                                  ProcSetupCache(c, parent[c]))
                                       EXCEPT !.creator = d])
                 /\ registry' = init_register(registry, c, n)
                 /\ mutex' = NoDisp
                 /\ UNCHANGED allPids
          ELSE /\ n <= MaxDisp
               /\ disp' = Append([disp EXCEPT ![d].pc = "scan", ![d].todo = Tail(@)],
                                 [NewDispatcher("proc", c, "loop", "started",
                                                ProcSetupCache(c, parent[c]))
                                     EXCEPT !.creator = d])
               /\ registry' = init_register(registry, c, n)
               /\ allPids' = allPids \cup {c}
               /\ UNCHANGED mutex
    /\ UNCHANGED <<initTree, pstate, parent, cpu, cputime, cycles>>
    /\ UNCHANGED <<svars, hvars, tvars, rvars>>

\* The same construction when the child exits while the constructor runs,
\* after psutil.Process and _setup_cache (lines 83-84) succeeded: line 89 has
\* added the id to _ALL_PIDS, then _write_registry, _write_env or
\* _write_mapfile (lines 91-93) raises "entity gone" and re-raises it.
DetectAttachLate(d) ==
    /\ d \in DispIds
    /\ disp[d].pc = "attach"
    /\ LET c == Head(disp[d].todo)
           n == Len(disp) + 1
       IN /\ registry[c] = NoDisp
          /\ Alive(c)
          /\ n <= MaxDisp
          /\ pstate' = [pstate EXCEPT ![c] = "exited"]
          /\ parent' = [k \in Pids |->
                          IF parent[k] = c /\ Alive(k) THEN parent[c] ELSE parent[k]]
          /\ disp' = Append([disp EXCEPT ![d].pc = "term", ![d].todo = <<>>],
                            [NewDispatcher("proc", c, "failed", "none",
                                           ProcSetupCache(c, parent[c]))
                                EXCEPT !.creator = d])
          /\ registry' = init_register(registry, c, n)
          /\ allPids' = allPids \cup {c}
          /\ mutex' = NoDisp
    /\ UNCHANGED <<initTree, cpu, cputime, cycles>>
    /\ UNCHANGED <<svars, hvars, tvars, rvars>>

\* The construction of a child Dispatcher taken in steps, on the thread of the
\* scanning Dispatcher d, which holds _DISPATCHER_MUTEX.
\* __init__ lines 67-68 or 82-87: register_dispatcher or psutil.Process
\* raises, before _write_registry is reached.
ConstructRaises(d) ==
    /\ d \in DispIds
    /\ disp[d].pc = "attach"
    /\ registry[Head(disp[d].todo)] # NoDisp \/ ~Alive(Head(disp[d].todo))
    /\ DetectAttach(d)

\* __init__ lines 67-91 and _write_registry line 126: the child is registered,
\* its psutil handle and cache are set up, its id joins _ALL_PIDS, and the
\* constructor enters "with _REG_MUTEX".
WriteRegistryLock(d) ==
    /\ d \in DispIds
    /\ disp[d].pc = "attach"
    /\ regMutex = NoDisp
    /\ LET c == Head(disp[d].todo)
           n == Len(disp) + 1
       IN /\ registry[c] = NoDisp
          /\ Alive(c)
          /\ n <= MaxDisp
          /\ disp' = Append([disp EXCEPT ![d].pc = "reg"],
                            [NewDispatcher("proc", c, "init", "none",
                                           ProcSetupCache(c, parent[c]))
                                EXCEPT !.creator = d])
          /\ registry' = init_register(registry, c, n)
          /\ allPids' = allPids \cup {c}
          /\ regMutex' = d
    /\ UNCHANGED <<cpuTracer, rsc, refresh>>
    /\ UNCHANGED <<initTree, pstate, parent, cpu, mutex, cputime, cycles>>
    /\ UNCHANGED <<svars, hvars, rvars>>

\* a with-block that does not release its lock when it is left
with_exit_keeps(holder) == holder

\* "with <lock>:", lines 109 and 126: leaving the block, by its end or by an
\* exception, releases the lock
with_exit(holder) == NoDisp

\* _write_registry lines 127-138, then __init__ lines 92-96 and
\* _detect_process lines 184-185.  The with-block releases _REG_MUTEX whether
\* the line is written or cmdline(), exe() or cwd() raises "entity gone"; in
\* the second case the exception also leaves _detect_process and the
\* with-block of run_body, which releases _DISPATCHER_MUTEX.
WriteRegistryUnlock(d) ==
    /\ d \in DispIds
    /\ disp[d].pc = "reg"
    /\ regMutex = d
    /\ LET c == Head(disp[d].todo)
           n == registry[c]
       IN IF Alive(c)
            THEN /\ disp' = [disp EXCEPT ![d].pc = "scan", ![d].todo = Tail(@),
                                         ![n].pc = "loop", ![n].tracers = "started"]
                 /\ UNCHANGED mutex
            ELSE /\ disp' = [disp EXCEPT ![d].pc = "term", ![d].todo = <<>>,
                                         ![n].pc = "failed"]
                 /\ mutex' = with_exit(mutex)
    /\ regMutex' = with_exit(regMutex)
    /\ UNCHANGED <<cpuTracer, rsc, refresh>>
    /\ UNCHANGED <<initTree, pstate, parent, cpu, registry, cputime, allPids, cycles>>
    /\ UNCHANGED <<svars, hvars, rvars>>

\* End of the for loop of _detect_process: leave the with-block, sleep.
DetectEnd(d) ==
    /\ d \in DispIds
    /\ disp[d].pc = "scan"
    /\ disp[d].todo = <<>>
    /\ disp' = [disp EXCEPT ![d].pc = "loop"]
    /\ mutex' = NoDisp
    /\ cycles' = IF disp[d].pid = RootPid THEN NextCycle(cycles) ELSE cycles
    /\ UNCHANGED <<initTree, pstate, parent, cpu, registry, cputime, allPids>>
    /\ UNCHANGED <<svars, hvars, tvars, rvars>>

\* _detect_process without line 185: no child Dispatcher is in the pool
pool_dispatchers_none(d) == {}

\* _detect_process line 185, self.append_threadpool(new_thread): the child
\* Dispatchers d constructed and started are members of d's thread pool, next
\* to its pollers.
pool_dispatchers(d) == {e \in DispIds : disp[e].creator = d /\ disp[e].pc # "failed"}

\* run_body line 114, sigterm(): stop the pool.  Every member is told to
\* stop: the pollers, and the child Dispatchers appended at line 185.
StopTracers(d) ==
    /\ d \in DispIds
    /\ disp[d].pc = "term"
    /\ disp' = [e \in DispIds |->
                  IF e = d THEN [disp[e] EXCEPT !.pc = "join", !.tracers = "stopped"]
                  ELSE IF e \in pool_dispatchers(d) THEN [disp[e] EXCEPT !.should_exit = TRUE]
                  ELSE disp[e]]
    /\ UNCHANGED <<initTree, pstate, parent, cpu, registry, mutex, cputime, allPids, cycles>>
    /\ UNCHANGED <<svars, hvars, tvars, rvars>>

\* sigterm(), continued: join the pool.  The join of a member returns once
\* its thread has ended.
JoinTracers(d) ==
    /\ d \in DispIds
    /\ disp[d].pc = "join"
    /\ \A e \in pool_dispatchers(d) : ~IsRunning(e)
    /\ disp' = [disp EXCEPT ![d].pc = "ending"]
    /\ UNCHANGED <<initTree, pstate, parent, cpu, registry, mutex, cputime, allPids, cycles>>
    /\ UNCHANGED <<svars, hvars, tvars, rvars>>

\* before_ending, lines 196-198: write the .cputime file, leave the registry.
BeforeEnding(d) ==
    /\ d \in DispIds
    /\ disp[d].pc = "ending"
    /\ cputime' = [cputime EXCEPT ![disp[d].pid] = disp[d].cached]
    /\ registry' = remove_dispatcher(registry, disp[d].pid)
    /\ disp' = [disp EXCEPT ![d].pc = "done"]
    /\ UNCHANGED <<initTree, pstate, parent, cpu, mutex, allPids, cycles>>
    /\ UNCHANGED <<svars, hvars, tvars, rvars>>

\* ------------------------------------------- SystemTracerDispatcherThread
\* lines 329 and 338 with the test made on the numerator
ratio_guard_numerator(num, den) == num # 0

\* lines 329 and 338: "if mem_info[1] != 0", "if swap_info[1] != 0"
ratio_guard(num, den) == den # 0

\* lines 330 and 339: str(round(num / den * 100, 2)) + "%"
ratio_str(num, den) ==
    IF den = 0 THEN "ZeroDivisionError"
    ELSE FloatStr(RoundHalfEven(num * 10000, den)) \o "%"

\* lines 329-332 and 338-341
ratio_percent(num, den) ==
    IF ratio_guard(num, den) THEN ratio_str(num, den) ELSE "0.00%"

\* line 323-325: str(round(statistics.mean(percents), 2)) + "%"
mean_percent_str(percents) ==
    FloatStr(RoundHalfEven(SeqSum(percents) * 100, Len(percents))) \o "%"

\* _update_cache, lines 322-341
sys_update_cache(cache, cpuv, mem, swap) ==
    [cache EXCEPT
       !["CPU%"] = mean_percent_str(cpuv),
       !["VM_AVAIL"] = _to_human_readable(mem[1], 1024).text,
       !["VM_TOTAL"] = _to_human_readable(mem[2], 1024).text,
       !["VM_PERCENT"] = ratio_percent(mem[1], mem[2]),
       !["BUFFERED"] = _to_human_readable(mem[3], 1024).text,
       !["SHARED"] = _to_human_readable(mem[4], 1024).text,
       !["SWAP_AVAIL"] = _to_human_readable(swap[1], 1024).text,
       !["SWAP_TOTAL"] = _to_human_readable(swap[2], 1024).text,
       !["SWAP_PERCENT"] = ratio_percent(swap[1], swap[2])]

sys_update_cache_raises(mem, swap) ==
    \/ ratio_percent(mem[1], mem[2]) = "ZeroDivisionError"
    \/ ratio_percent(swap[1], swap[2]) = "ZeroDivisionError"

\* run_body lines 294-296; before_ending is disabled and run_body does not
\* call sigterm, so the system id stays in the registry.  An exception of
\* _update_cache ends the thread.
SysRun(d) ==
    /\ d \in DispIds
    /\ disp[d].kind = "sys"
    /\ disp[d].pc = "loop"
    /\ IF should_exit_read(d)
         THEN /\ disp' = [disp EXCEPT ![d].pc = "done"]
              /\ UNCHANGED sysRead
       ELSE IF sys_update_cache_raises(vmInfo, swapInfo)
         THEN /\ disp' = [disp EXCEPT ![d].pc = "crashed"]
              /\ sysRead' = [vm |-> vmInfo, swap |-> swapInfo]
       ELSE /\ disp' = [disp EXCEPT ![d].frontend =
                                      sys_update_cache(@, sysCpu, vmInfo, swapInfo)]
            /\ sysRead' = [vm |-> vmInfo, swap |-> swapInfo]
    /\ UNCHANGED <<initTree, pstate, parent, cpu, registry, mutex, cputime, allPids, cycles>>
    /\ UNCHANGED <<vmInfo, swapInfo, sysCpu, sysMnt, sysRegs, hvars, tvars, rvars>>

\* __init__ without line 290: the snapshot is not written
write_mnt_skipped(n) == n

\* _write_mnt, lines 298-320: open <basename>.mnt.tsv with mode 'w' and write
\* the header and one row per partition
write_mnt(n) == n + 1

\* SystemTracerDispatcherThread.__init__, lines 280-282: the base constructor,
\* register_dispatcher(DEFAULT_SYSTEM_INDICATOR_PID, self), _setup_cache().
\* register_dispatcher refuses an id that is present.
SysInitRegister(d) ==
    /\ d \in DispIds
    /\ disp[d].kind = "sys"
    /\ disp[d].pc = "new"
    /\ IF registry[DEFAULT_SYSTEM_INDICATOR_PID] # NoDisp
         THEN /\ disp' = [disp EXCEPT ![d].pc = "failed"]
              /\ UNCHANGED <<registry, sysRegs>>
         ELSE /\ registry' = register_dispatcher(registry, DEFAULT_SYSTEM_INDICATOR_PID, d)
              /\ sysRegs' = sysRegs + 1
              /\ disp' = [disp EXCEPT ![d].pc = "registered", ![d].frontend = SysSetupCache]
    /\ UNCHANGED <<initTree, pstate, parent, cpu, mutex, cputime, allPids, cycles>>
    /\ UNCHANGED <<vmInfo, swapInfo, sysCpu, sysRead, sysMnt, hvars, tvars, rvars>>

\* __init__, lines 283-290: choose the tracers, then _write_mnt().
SysInitWriteMnt(d) ==
    /\ d \in DispIds
    /\ disp[d].kind = "sys"
    /\ disp[d].pc = "registered"
    /\ sysMnt' = write_mnt(sysMnt)
    /\ disp' = [disp EXCEPT ![d].pc = "mnt"]
    /\ UNCHANGED <<initTree, pstate, parent, cpu, registry, mutex, cputime, allPids, cycles>>
    /\ UNCHANGED <<vmInfo, swapInfo, sysCpu, sysRead, sysRegs, hvars, tvars, rvars>>

\* __init__, line 291: start_tracers(); the constructor returns and the
\* caller starts the thread.
SysInitStart(d) ==
    /\ d \in DispIds
    /\ disp[d].kind = "sys"
    /\ disp[d].pc = "mnt"
    /\ disp' = [disp EXCEPT ![d].pc = "loop", ![d].tracers = "started"]
    /\ UNCHANGED <<initTree, pstate, parent, cpu, registry, mutex, cputime, allPids, cycles>>
    /\ UNCHANGED <<svars, hvars, tvars, rvars>>

\* The system pollers replace their cached values (SystemMEMTracerThread,
\* SystemSWAPTracerThread: probe()).
ByteSamples == {512 * x : x \in 0..MaxBytes}

MemProbe(a, t, b, sh) ==
    /\ vmInfo # <<a, t, b, sh>>
    /\ vmInfo' = <<a, t, b, sh>>
    /\ UNCHANGED <<dvars, swapInfo, sysCpu, sysRead, sysMnt, sysRegs, hvars, tvars, rvars>>

SwapProbe(a, t) ==
    /\ swapInfo # <<a, t>>
    /\ swapInfo' = <<a, t>>
    /\ UNCHANGED <<dvars, vmInfo, sysCpu, sysRead, sysMnt, sysRegs, hvars, tvars, rvars>>

\* A call of _to_human_readable.
HRBases == {1000, 1024, 10}
HRNums ==
    (0..MaxNum) \cup
    {Pow(b, k) + e : b \in {1000, 1024}, k \in 1..2, e \in {-1, 0, 1}}

HRPending == [error |-> "", step |-> 0, text |-> "(pending)"]

ToHumanReadable ==
    /\ hrOut.out = HRPending
    /\ hrOut' = [hrOut EXCEPT !.out = _to_human_readable(hrOut.num, hrOut.base)]
    /\ UNCHANGED <<dvars, svars, tvars, rvars>>

\* ---------------------------------------------------- SystemCPUTracerThread
RECURSIVE Gcd(_, _)
Gcd(a, b) == IF b = 0 THEN a ELSE Gcd(b, a % b)

\* probe with the sum of the reading cached
cpu_sum(percents) == [num |-> SeqSum(percents), den |-> 1]

\* line 40: statistics.mean(cpu_percents), as a fraction in lowest terms
cpu_mean(percents) ==
    LET t == SeqSum(percents)
        g == Gcd(t, Len(percents))
    IN [num |-> t \div g, den |-> Len(percents) \div g]

\* __init__, lines 29-30: ['TIME', '0', .., str(cpu_count - 1)]
cpu_name_array == <<"TIME">> \o [i \in 1..NCores |-> ToString(i - 1)]

\* psutil.cpu_percent(interval=1, percpu=True): None, or one percentage per
\* logical core
CorePercents == {0, 50, 100}
CpuReadings ==
    {[none |-> TRUE, v |-> <<>>]} \cup
    {[none |-> FALSE, v |-> q] : q \in [1..NCores -> CorePercents]}

\* After __init__, lines 18-34: the header is fixed, no row is written.
InitCpuTracer ==
    cpuTracer = [header |-> cpu_name_array, rows |-> <<>>,
                 cached |-> [num |-> 0, den |-> 1], clock |-> 0,
                 reading |-> [none |-> TRUE, v |-> <<>>]]

\* probe, lines 36-43.  The clock is what get_timestamp() returns; the call
\* of cpu_percent blocks for its interval, so every probe is at a new time.
Probe(r) ==
    /\ cpuTracer.clock < MaxProbes
    /\ LET now == cpuTracer.clock + 1
       IN IF r.none
            THEN cpuTracer' = [cpuTracer EXCEPT !.clock = now, !.reading = r]
            ELSE cpuTracer' = [cpuTracer EXCEPT
                                 !.clock = now,
                                 !.reading = r,
                                 !.cached = cpu_mean(r.v),
                                 !.rows = Append(@, <<now>> \o r.v)]
    /\ rsc' = rsc
    /\ regMutex' = regMutex
    /\ refresh' = refresh
    /\ UNCHANGED <<dvars, svars, hvars, rvars>>

\* ------------------------------------------------------------- _resampler
\* Timestamps are held in tenths of a second.
Times == 10..(9 + MaxTime)

\* The TIME column of a log with rows: one or two timestamps, in time order.
TimeColumns ==
    {q \in UNION {[1..n -> Times] : n \in 1..2} : \A i \in 1..(Len(q) - 1) : q[i] <= q[i + 1]}

\* What a *.tsv file of the directory can be: a log with a TIME column and
\* rows; a table without a TIME column (the environment, memory-map and
\* mounted-volumes snapshots, the registry); a header with a TIME column and
\* no row; a file of zero bytes.  named_resampled: the file's own name
\* contains "resampled".
TsvFiles ==
    {[named_resampled |-> nr, kind |-> k, times |-> <<>>] :
        nr \in BOOLEAN, k \in {"no_time", "header_only", "empty"}}
    \cup {[named_resampled |-> nr, kind |-> "rows", times |-> q] :
             nr \in BOOLEAN, q \in TimeColumns}

\* get_first_and_last_timestamp_from_a_file, lines 11-25.  df['TIME'] raises
\* KeyError without the column and .iloc[0] raises IndexError without rows:
\* both give None.  pd.read_table raises EmptyDataError on a file of zero
\* bytes, which lines 20-21 do not catch.
get_first_and_last_timestamp_from_a_file(f) ==
    IF f.kind = "empty" THEN [error |-> "EmptyDataError", none |-> TRUE, first |-> 0, last |-> 0]
    ELSE IF f.kind \in {"no_time", "header_only"}
      THEN [error |-> "", none |-> TRUE, first |-> 0, last |-> 0]
    ELSE [error |-> "", none |-> FALSE, first |-> f.times[1], last |-> f.times[Len(f.times)]]

\* line 94: path.find("resampled") != -1, the path being
\* os.path.join(output_basename, <file name>)
path_has_resampled(dir_resampled, f) == dir_resampled \/ f.named_resampled

\* lines 100-101; found is false while new_instance_start is math.inf
time_min(acc, t) == IF ~acc.found \/ t < acc.start THEN t ELSE acc.start
time_max(acc, t) == IF ~acc.found \/ t > acc.end THEN t ELSE acc.end

\* ResamplerConfig.__init__, lines 80-81: round(time, round_to_demical), for
\* round_to_demical 0 (whole seconds) or 1
round_time(t, round_to_demical) ==
    IF round_to_demical = 0 THEN 10 * RoundHalfEven(t, 10) ELSE t

\* from_dir, lines 93-101: the loop over the files, from file i on
RECURSIVE from_dir_loop(_, _, _, _)
from_dir_loop(dir_resampled, files, i, acc) ==
    IF i > Len(files) THEN acc
    ELSE IF path_has_resampled(dir_resampled, files[i])
      THEN from_dir_loop(dir_resampled, files, i + 1, acc)
    ELSE LET r == get_first_and_last_timestamp_from_a_file(files[i])
         IN IF r.error # "" THEN [acc EXCEPT !.error = r.error]
            ELSE IF r.none THEN from_dir_loop(dir_resampled, files, i + 1, acc)
            ELSE from_dir_loop(dir_resampled, files, i + 1,
                               [error |-> "", found |-> TRUE,
                                start |-> time_min(acc, r.first),
                                end |-> time_max(acc, r.last)])

\* ResamplerConfig.from_dir, lines 88-109, with __init__, lines 79-86.
\* time_start and time_end are the values handed to the constructor; the
\* grid runs between their rounded values.
from_dir(dir_resampled, files, round_to_demical) ==
    LET acc == from_dir_loop(dir_resampled, files, 1,
                             [error |-> "", found |-> FALSE, start |-> 0, end |-> 0])
    IN IF acc.error # ""
         THEN [error |-> acc.error, time_start |-> 0, time_end |-> 0, index |-> <<>>]
       ELSE IF ~acc.found
         THEN [error |-> "ValueError", time_start |-> 0, time_end |-> 0, index |-> <<>>]
       ELSE [error |-> "", time_start |-> acc.start, time_end |-> acc.end,
             index |-> <<round_time(acc.start, round_to_demical),
                         round_time(acc.end, round_to_demical)>>]

RscPending == [error |-> "(pending)", time_start |-> 0, time_end |-> 0, index |-> <<>>]

InitResampleIdle ==
    rsc = [dir_resampled |-> FALSE, files |-> <<>>, round_to_demical |-> 0, out |-> RscPending]

FromDir ==
    /\ rsc.out = RscPending
    /\ rsc' = [rsc EXCEPT !.out = from_dir(rsc.dir_resampled, rsc.files, rsc.round_to_demical)]
    /\ cpuTracer' = cpuTracer
    /\ regMutex' = regMutex
    /\ refresh' = refresh
    /\ UNCHANGED <<dvars, svars, hvars, rvars>>

\* No report is being generated.
InitNoReport ==
    /\ rPc = "idle"
    /\ rPids = {}
    /\ rJobs = [p \in 0..MaxReportPid |->
                  [st |-> "none", script |-> "", pidarg |-> "", log |-> "none",
                   retv |-> -1, error |-> FALSE]]
    /\ rQueue = <<>>
    /\ rGiven = {}

InitSystemPollers ==
    /\ vmInfo = <<0, 0, 0, 0>>
    /\ swapInfo = <<0, 0>>
    /\ sysRead = [vm |-> <<>>, swap |-> <<>>]
    /\ sysMnt = 1
    /\ sysRegs = 1
    /\ InitCpuTracer

InitHR == hrOut = [num |-> 0, base |-> 1024, out |-> HRPending]

Init ==
    /\ InitDispatchers
    /\ InitSystemPollers
    /\ sysCpu = <<0, 0>>
    /\ InitHR
    /\ InitNoReport
    /\ InitResampleIdle

Next ==
    \/ \E p \in Pids, c \in Pids : Spawn(p, c)
    \/ \E p \in Pids : Exit(p)
    \/ Shutdown
    \/ \E d \in 1..MaxDisp : RunLoop(d)
    \/ \E d \in 1..MaxDisp : DetectBegin(d)
    \/ \E d \in 1..MaxDisp : DetectCheck(d)
    \/ \E d \in 1..MaxDisp : DetectAttach(d)
    \/ \E d \in 1..MaxDisp : DetectAttachLate(d)
    \/ \E d \in 1..MaxDisp : DetectEnd(d)
    \/ \E d \in 1..MaxDisp : StopTracers(d)
    \/ \E d \in 1..MaxDisp : JoinTracers(d)
    \/ \E d \in 1..MaxDisp : BeforeEnding(d)

Spec == Init /\ [][Next]_vars

\* The system Dispatcher with its pollers.
CpuSamples == {<<0, 0>>, <<25, 50>>}

InitSys ==
    /\ InitDispatchers
    /\ initTree = {RootPid}
    /\ InitSystemPollers
    /\ sysCpu \in CpuSamples
    /\ InitHR
    /\ InitNoReport
    /\ InitResampleIdle

NextSys ==
    \/ \E a, t \in ByteSamples : MemProbe(a, t, 1536, 0)
    \/ \E a, t \in ByteSamples : SwapProbe(a, t)
    \/ \E d \in 1..MaxDisp : SysRun(d)
    \/ Shutdown

SpecSys == InitSys /\ [][NextSys]_vars

\* The life of the system Dispatcher, from before its construction.  The
\* pollers probe once start_tracers has started them.
InitSysLife ==
    /\ initTree = {RootPid}
    /\ pstate = [p \in Pids |-> IF p \in initTree THEN "alive" ELSE "unborn"]
    /\ cpu = [p \in Pids |-> 0]
    /\ cycles = 0
    /\ parent = [p \in Pids |-> IF p = RootPid THEN 0 ELSE RootPid]
    /\ disp = << NewDispatcher("sys", DEFAULT_SYSTEM_INDICATOR_PID, "new", "none",
                               [k \in {} |-> "NA"]) >>
    /\ registry = [i \in Ids |-> NoDisp]
    /\ mutex = NoDisp
    /\ regMutex = NoDisp
    /\ refresh = [d \in 1..MaxDisp |-> 0]
    /\ cputime = [p \in Pids |-> NoFile]
    /\ allPids = {}
    /\ vmInfo = <<0, 0, 0, 0>>
    /\ swapInfo = <<0, 0>>
    /\ sysRead = [vm |-> <<>>, swap |-> <<>>]
    /\ sysMnt = 0
    /\ sysRegs = 0
    /\ InitCpuTracer
    /\ sysCpu \in CpuSamples
    /\ InitHR
    /\ InitNoReport
    /\ InitResampleIdle

PollersStarted == \E d \in DispIds : disp[d].kind = "sys" /\ disp[d].tracers = "started"

NextSysLife ==
    \/ \E d \in 1..MaxDisp : SysInitRegister(d)
    \/ \E d \in 1..MaxDisp : SysInitWriteMnt(d)
    \/ \E d \in 1..MaxDisp : SysInitStart(d)
    \/ \E a, t \in ByteSamples : PollersStarted /\ MemProbe(a, t, 1536, 0)
    \/ \E a, t \in ByteSamples : PollersStarted /\ SwapProbe(a, t)
    \/ \E d \in 1..MaxDisp : SysRun(d)
    \/ Shutdown

SpecSysLife == InitSysLife /\ [][NextSysLife]_vars

\* A call of _to_human_readable with arguments from HRNums and HRBases.
InitHRCall ==
    /\ InitDispatchers
    /\ initTree = {RootPid}
    /\ InitSystemPollers
    /\ sysCpu = <<0, 0>>
    /\ \E n \in HRNums, b \in HRBases : hrOut = [num |-> n, base |-> b, out |-> HRPending]
    /\ InitNoReport
    /\ InitResampleIdle

NextHR == ToHumanReadable

SpecHR == InitHRCall /\ [][NextHR]_vars

\* A call of _to_human_readable with an input of up to MaxLimbs digits: each
\* digit is 0, 1 or base - 1, which gives every power of the base, its
\* neighbours, and magnitudes beyond the last unit.
LimbsOf(base) ==
    {q \in UNION {[1..n -> {0, 1, base - 1}] : n \in 0..MaxLimbs} :
        q # <<>> => q[Len(q)] # 0}

InitHRBig ==
    /\ InitDispatchers
    /\ initTree = {RootPid}
    /\ InitSystemPollers
    /\ sysCpu = <<0, 0>>
    /\ \E b \in HRBases : \E q \in LimbsOf(b) :
          hrOut = [num |-> q, base |-> b, out |-> HRPending]
    /\ InitNoReport
    /\ InitResampleIdle

ToHumanReadableBig ==
    /\ hrOut.out = HRPending
    /\ hrOut' = [hrOut EXCEPT !.out = hr_scale(hrOut.num, hrOut.base)]
    /\ UNCHANGED <<dvars, svars, tvars, rvars>>

NextHRBig == ToHumanReadableBig

SpecHRBig == InitHRBig /\ [][NextHRBig]_vars

\* The probes of the system CPU poller.
InitProbe ==
    /\ InitDispatchers
    /\ initTree = {RootPid}
    /\ InitSystemPollers
    /\ sysCpu = <<0, 0>>
    /\ InitHR
    /\ InitNoReport
    /\ InitResampleIdle

NextProbe == \E r \in CpuReadings : Probe(r)

SpecProbe == InitProbe /\ [][NextProbe]_vars

\* A call of ResamplerConfig.from_dir on a directory of up to MaxFiles files.
InitResample ==
    /\ InitDispatchers
    /\ initTree = {RootPid}
    /\ InitSystemPollers
    /\ sysCpu = <<0, 0>>
    /\ InitHR
    /\ InitNoReport
    /\ \E dr \in BOOLEAN, rd \in {0, 1} :
       \E fs \in UNION {[1..n -> TsvFiles] : n \in 0..MaxFiles} :
          rsc = [dir_resampled |-> dr, files |-> fs, round_to_demical |-> rd,
                 out |-> RscPending]

NextResample == FromDir

SpecResample == InitResample /\ [][NextResample]_vars

\* The supervision of one childless process under noisy CPU-time readings.
InitCpu ==
    /\ Init
    /\ initTree = {RootPid}

NextCpu ==
    \/ \E p \in Pids, v \in Readings : CpuJitter(p, v)
    \/ \E p \in Pids : Exit(p)
    \/ Shutdown
    \/ \E d \in 1..MaxDisp : RunLoop(d)
    \/ \E d \in 1..MaxDisp : DetectBegin(d)
    \/ \E d \in 1..MaxDisp : DetectEnd(d)
    \/ \E d \in 1..MaxDisp : StopTracers(d)
    \/ \E d \in 1..MaxDisp : JoinTracers(d)
    \/ \E d \in 1..MaxDisp : BeforeEnding(d)
    \/ \E d \in 1..MaxDisp : SysRun(d)

SpecCpu == InitCpu /\ [][NextCpu]_vars

\* Cancellation: a root process with one child; nothing is forked, the
\* processes may exit, and shutdown may be requested.  Every thread that can
\* take a step eventually takes it; a thread waiting for _DISPATCHER_MUTEX
\* gets it eventually, because every holder releases it and then sleeps
\* DEFAULT_REFRESH_INTERVAL before asking again.
InitCancel ==
    /\ InitDispatchersIn({{RootPid, RootPid + 1}})
    /\ InitSystemPollers
    /\ sysCpu = <<0, 0>>
    /\ InitHR
    /\ InitNoReport
    /\ InitResampleIdle

NextCancel ==
    \/ \E p \in Pids : Exit(p)
    \/ Shutdown
    \/ \E d \in 1..MaxDisp : RunLoop(d)
    \/ \E d \in 1..MaxDisp : DetectBegin(d)
    \/ \E d \in 1..MaxDisp : DetectCheck(d)
    \/ \E d \in 1..MaxDisp : DetectAttach(d)
    \/ \E d \in 1..MaxDisp : DetectAttachLate(d)
    \/ \E d \in 1..MaxDisp : DetectEnd(d)
    \/ \E d \in 1..MaxDisp : StopTracers(d)
    \/ \E d \in 1..MaxDisp : JoinTracers(d)
    \/ \E d \in 1..MaxDisp : BeforeEnding(d)
    \/ \E d \in 1..MaxDisp : SysRun(d)

FairCancel ==
    \A d \in 1..MaxDisp :
       /\ WF_vars(RunLoop(d))
       /\ SF_vars(DetectBegin(d))
       /\ WF_vars(DetectCheck(d))
       /\ WF_vars(DetectAttach(d) \/ DetectAttachLate(d))
       /\ WF_vars(DetectEnd(d))
       /\ WF_vars(SysRun(d))

SpecCancel == InitCancel /\ [][NextCancel]_vars /\ FairCancel

\* The two mutexes: the supervision of a process tree with the child
\* constructor taken in steps, under fair scheduling.  The root process has
\* two children, so that a child's Dispatcher can wait for the scan while the
\* root's thread constructs the Dispatcher of the other child.  The
\* termination flag is set by a parent's teardown only.
InitMutex ==
    /\ InitDispatchersIn({{RootPid, RootPid + 1, RootPid + 2}})
    /\ InitSystemPollers
    /\ sysCpu = <<0, 0>>
    /\ InitHR
    /\ InitNoReport
    /\ InitResampleIdle

NextMutex ==
    \/ \E p \in Pids : Exit(p)
    \/ \E d \in 1..MaxDisp : RunLoop(d)
    \/ \E d \in 1..MaxDisp : DetectBegin(d)
    \/ \E d \in 1..MaxDisp : DetectCheck(d)
    \/ \E d \in 1..MaxDisp : ConstructRaises(d)
    \/ \E d \in 1..MaxDisp : WriteRegistryLock(d)
    \/ \E d \in 1..MaxDisp : WriteRegistryUnlock(d)
    \/ \E d \in 1..MaxDisp : DetectEnd(d)
    \/ \E d \in 1..MaxDisp : StopTracers(d)
    \/ \E d \in 1..MaxDisp : JoinTracers(d)
    \/ \E d \in 1..MaxDisp : BeforeEnding(d)
    \/ \E d \in 1..MaxDisp : SysRun(d)

FairMutex ==
    \A d \in 1..MaxDisp :
       /\ WF_vars(RunLoop(d))
       /\ SF_vars(DetectBegin(d))
       /\ WF_vars(DetectCheck(d))
       /\ WF_vars(ConstructRaises(d))
       /\ WF_vars(WriteRegistryLock(d))
       /\ WF_vars(WriteRegistryUnlock(d))
       /\ WF_vars(DetectEnd(d))
       /\ WF_vars(SysRun(d))

SpecMutex == InitMutex /\ [][NextMutex]_vars /\ FairMutex

\* The frontend caches: a root process with one child, the refresh of a
\* process Dispatcher taken one item assignment at a time, the system
\* Dispatcher refreshing from the values its pollers replace.  The CPU time
\* of the child moves, that of the root stays put.
NextCache ==
    \/ \E v \in Readings : CpuJitter(RootPid + 1, v)
    \/ \E p \in Pids : Exit(p)
    \/ MemProbe(512, 1024, 1536, 0)
    \/ \E d \in 1..MaxDisp : UpdateCacheBegin(d)
    \/ \E d \in 1..MaxDisp : UpdateCacheAssign(d)
    \/ \E d \in 1..MaxDisp : DetectBegin(d)
    \/ \E d \in 1..MaxDisp : DetectCheck(d)
    \/ \E d \in 1..MaxDisp : DetectAttach(d)
    \/ \E d \in 1..MaxDisp : DetectEnd(d)
    \/ \E d \in 1..MaxDisp : StopTracers(d)
    \/ \E d \in 1..MaxDisp : JoinTracers(d)
    \/ \E d \in 1..MaxDisp : BeforeEnding(d)
    \/ \E d \in 1..MaxDisp : SysRun(d)

SpecCache == InitCancel /\ [][NextCache]_vars

\* ---------------------------------------------------------------- report.py
ReportPids == 0..MaxReportPid
RetCodes == 0..MaxRetCode
NotRun == -1

\* _MakeIndividualReportThread.__init__, lines 27-31
NoJob ==
    [st |-> "none", script |-> "", pidarg |-> "", log |-> "none", retv |-> NotRun,
     error |-> FALSE]
NewJob == [NoJob EXCEPT !.st = "queued"]

Submitted == {p \in ReportPids : rJobs[p].st # "none"}

\* ParallelJobQueue.join: every submitted job has completed
pool_all_finished(jobs) == \A p \in ReportPids : jobs[p].st \in {"none", "done"}

\* ParallelJobQueue: bounded concurrency
pool_has_slot(jobs) == Cardinality({p \in ReportPids : jobs[p].st = "running"}) < PoolSize

\* make_all_report without line 82
make_all_report_no_join(jobs) == TRUE

\* make_all_report, line 82: parallel_job_queue.join()
make_all_report_join(jobs) == pool_all_finished(jobs)

\* make_all_report without line 78: the ids the for loop visits
report_ids_as_given(all_pids) == SetToSeq(all_pids)

\* make_all_report, lines 78-79: all_pids.add(0), then the for loop visits
\* every element of the set once
report_ids(all_pids) == SetToSeq(all_pids \cup {0})

\* _MakeIndividualReportThread.run, lines 39-61: the renderer's script and its
\* --pid argument
report_script(this_pid) ==
    IF this_pid = 0 THEN "make_system_report.R" ELSE "make_process_report.R"

report_pidarg(this_pid) == IF this_pid = 0 THEN "" ELSE ToString(this_pid)

\* run without the test of line 66: the log file is always removed
log_after_always_removed(retv) == "removed"

\* _MakeIndividualReportThread.run, lines 65-70: close the log file, remove it
\* when the renderer exited with 0
log_after(retv) == IF retv = 0 THEN "removed" ELSE "closed"

\* line 70: logger.error is called when retv is not 0
error_logged(retv) == retv # 0

QueueCount(q, p) == Cardinality({i \in 1..Len(q) : q[i] = p})

\* make_all_report, lines 77-80: add the system id to the caller's set and
\* append one job per id.
ReportAppend ==
    /\ rPc = "call"
    /\ rPids' = rPids \cup {0}
    /\ rQueue' = report_ids(rPids)
    /\ rJobs' = [p \in ReportPids |-> IF QueueCount(rQueue', p) > 0 THEN NewJob ELSE NoJob]
    /\ rPc' = "appended"
    /\ UNCHANGED <<dvars, svars, hvars, tvars, rGiven>>

\* make_all_report, line 81: parallel_job_queue.start()
ReportStart ==
    /\ rPc = "appended"
    /\ rPc' = "started"
    /\ UNCHANGED <<dvars, svars, hvars, tvars, rPids, rJobs, rQueue, rGiven>>

\* _MakeIndividualReportThread.run, lines 34-63: the pool starts a queued job,
\* which opens its log file and spawns the renderer.
JobStart(p) ==
    /\ rPc = "started"
    /\ rJobs[p].st = "queued"
    /\ pool_has_slot(rJobs)
    /\ rJobs' = [rJobs EXCEPT ![p].st = "running",
                              ![p].log = "open",
                              ![p].script = report_script(p),
                              ![p].pidarg = report_pidarg(p)]
    /\ UNCHANGED <<dvars, svars, hvars, tvars, rPc, rPids, rQueue, rGiven>>

\* _MakeIndividualReportThread.run, lines 64-70: the renderer exits.
JobFinish(p, retv) ==
    /\ rJobs[p].st = "running"
    /\ rJobs' = [rJobs EXCEPT ![p].st = "done",
                              ![p].retv = retv,
                              ![p].log = log_after(retv),
                              ![p].error = error_logged(retv)]
    /\ UNCHANGED <<dvars, svars, hvars, tvars, rPc, rPids, rQueue, rGiven>>

\* make_all_report, lines 82-83: join returns, "All finished".
ReportJoin ==
    /\ rPc = "started"
    /\ make_all_report_join(rJobs)
    /\ rPc' = "returned"
    /\ UNCHANGED <<dvars, svars, hvars, tvars, rPids, rJobs, rQueue, rGiven>>

\* A call make_all_report(all_pids, basename) with any subset of ReportPids.
InitReport ==
    /\ InitDispatchers
    /\ initTree = {RootPid}
    /\ InitSystemPollers
    /\ sysCpu = <<0, 0>>
    /\ InitHR
    /\ rPc = "call"
    /\ rPids \in SUBSET ReportPids
    /\ rGiven = rPids
    /\ InitResampleIdle
    /\ rQueue = <<>>
    /\ rJobs = [p \in ReportPids |-> NoJob]

NextReport ==
    \/ ReportAppend
    \/ ReportStart
    \/ \E p \in ReportPids : JobStart(p)
    \/ \E p \in ReportPids, retv \in RetCodes : JobFinish(p, retv)
    \/ ReportJoin

SpecReport == InitReport /\ [][NextReport]_vars

\* ------------------------------------------------------------------ claims
ProcDisps == {d \in DispIds : disp[d].kind = "proc"}
ThreadEnded(d) == disp[d].pc \in {"done", "crashed"}
RunningFor(i) == {d \in DispIds : disp[d].pid = i /\ IsRunning(d)}

\* C1: for every id at most one Dispatcher is running at any instant, and a
\* Dispatcher that is about to construct a child Dispatcher is the only one
\* doing so: it holds the scan mutex and the child id is not registered, so
\* of two Dispatchers that enumerated the same child exactly one adopts it.
C1_OneDispatcherPerId ==
    /\ \A i \in Ids : Cardinality(RunningFor(i)) <= 1
    /\ \A d \in DispIds :
          disp[d].pc = "attach" =>
             /\ mutex = d
             /\ Head(disp[d].todo) \notin get_current_active_pids
             /\ RunningFor(Head(disp[d].todo)) = {}

\* C1 witness: a scanning Dispatcher meets a child that another process
\* Dispatcher has already adopted (both enumerated the same child id).
C1_Witness ==
    \E d \in ProcDisps :
       /\ disp[d].pc = "scan"
       /\ disp[d].todo # <<>>
       /\ LET o == registry[Head(disp[d].todo)]
          IN /\ o # NoDisp
             /\ IsRunning(o)
             /\ disp[o].creator \notin {NoDisp, d}

\* C2: an id is in the registry if and only if a Dispatcher for it is
\* running.  Stated for process ids, on the states where no Dispatcher thread
\* has died of an uncaught exception (that loss is the subject of C4).
C2_RegistryIffRunning ==
    (\A d \in DispIds : disp[d].pc # "crashed") =>
       \A i \in Pids : (registry[i] # NoDisp) <=> (RunningFor(i) # {})

\* C3: a child's failure to attach never unwinds the parent's child scan: the
\* step that leaves the construction of a child goes on with the rest of the
\* scan (the remaining children), whatever the outcome of the construction.
C3_AttachFailureContained ==
    [][\A d \in DispIds :
          (disp[d].pc = "attach" /\ disp'[d].pc # "attach") =>
             (disp'[d].pc = "scan" /\ disp'[d].todo = Tail(disp[d].todo))]_vars

\* C4: whenever the thread of a process Dispatcher has ended, its teardown has
\* run: the Poller Pool is stopped, the cumulative CPU time file is written
\* and the Dispatcher is no longer in the registry.
C4_TeardownOnEveryExit ==
    \A d \in ProcDisps :
       ThreadEnded(d) =>
          /\ disp[d].tracers = "stopped"
          /\ cputime[disp[d].pid] # NoFile
          /\ registry[disp[d].pid] # d

\* C5: the cached cumulative CPU time is 0 before the first reading, is the
\* maximum of 0 and all readings taken so far, never decreases, and is the
\* value in the file once teardown has written it.
C5_Written(d) ==
    /\ disp[d].pc = "done"
    /\ \A e \in ProcDisps : (e > d /\ disp[e].pid = disp[d].pid) => disp[e].pc # "done"

C5_CpuTimeMonotone ==
    /\ [](\A d \in ProcDisps :
            /\ disp[d].cached = SetMax({0} \cup disp[d].seen)
            /\ C5_Written(d) => cputime[disp[d].pid] = SetMax({0} \cup disp[d].seen))
    /\ [][\A d \in ProcDisps : disp'[d].cached >= disp[d].cached]_vars

\* C5 witness: teardown wrote a value above the last raw reading (the
\* readings went down before the process Dispatcher ended).
C5_Witness ==
    \E d \in ProcDisps :
       /\ C5_Written(d)
       /\ disp[d].last < cputime[disp[d].pid]
       /\ Cardinality(disp[d].seen) >= 2

\* C6: end to end.  A root process with two children, nothing spawned or
\* exited and no shutdown: after two cycles of the root Dispatcher the active
\* ids are the parent, the two children and the system entity.  After all
\* processes have exited and every process Dispatcher thread has ended, the
\* registry holds the system entity only.
C6_Steady ==
    /\ initTree = {RootPid, 2, 3}
    /\ \A p \in Pids : pstate[p] = IF p \in initTree THEN "alive" ELSE "unborn"
    /\ \A d \in DispIds : ~disp[d].should_exit
    /\ cycles >= 2

C6_AllGone ==
    /\ initTree = {RootPid, 2, 3}
    /\ \A p \in Pids : ~Alive(p)
    /\ \A d \in ProcDisps : ~IsRunning(d)

C6_EndToEnd ==
    /\ C6_Steady => get_current_active_pids = initTree \cup {DEFAULT_SYSTEM_INDICATOR_PID}
    /\ C6_AllGone => get_current_active_pids = {DEFAULT_SYSTEM_INDICATOR_PID}

\* C7: a child that the enumeration returned and that is not registered gets
\* a Dispatcher attached in that scan, and once that child Dispatcher's thread
\* has ended its teardown has written the cumulative CPU time file and
\* removed the child from the registry.
C7_ChildAttachedAndTornDown ==
    /\ [][\A d \in DispIds :
            (disp[d].pc = "attach" /\ disp'[d].pc # "attach") =>
               \E n \in 1..Len(disp') :
                  /\ n \notin DispIds
                  /\ disp'[n].pid = Head(disp[d].todo)
                  /\ disp'[n].pc \in RunningPcs]_vars
    /\ [](\A d \in ProcDisps :
            (disp[d].creator # NoDisp /\ ThreadEnded(d)) =>
               /\ cputime[disp[d].pid] # NoFile
               /\ registry[disp[d].pid] = NoDisp)

\* C8: the unit examples of byte formatting: 0 gives "0B", 999 with base 1000
\* gives "999B", and 1024 with base 1024 gives "1.0KiB".
C8_UnitExamples ==
    hrOut.out # HRPending =>
       /\ (hrOut.num = 0 /\ hrOut.base \in {1000, 1024}) => hrOut.out.text = "0B"
       /\ (hrOut.num = 999 /\ hrOut.base = 1000) => hrOut.out.text = "999B"
       /\ (hrOut.num = 1024 /\ hrOut.base = 1024) => hrOut.out.text = "1.0KiB"

\* C9: the system Dispatcher's refresh never divides by zero (its thread does
\* not die of ZeroDivisionError), and after a refresh VM_PERCENT and
\* SWAP_PERCENT are the literal "0.00%" exactly when the total pulled was 0
\* and the computed ratio otherwise.
SysDisp == CHOOSE d \in DispIds : disp[d].kind = "sys"
SysCache == disp[SysDisp].frontend

C9_Refreshed == sysRead.vm # <<>> /\ \A d \in DispIds : disp[d].pc # "crashed"

C9_RatioZeroDenominator ==
    /\ \A d \in DispIds : disp[d].kind = "sys" => disp[d].pc # "crashed"
    /\ C9_Refreshed =>
          /\ SysCache["VM_PERCENT"] = "0.00%" <=> sysRead.vm[2] = 0
          /\ SysCache["SWAP_PERCENT"] = "0.00%" <=> sysRead.swap[2] = 0
          /\ sysRead.vm[2] # 0 =>
                SysCache["VM_PERCENT"] = ratio_str(sysRead.vm[1], sysRead.vm[2])
          /\ sysRead.swap[2] # 0 =>
                SysCache["SWAP_PERCENT"] = ratio_str(sysRead.swap[1], sysRead.swap[2])

\* C9 witness: a refresh that pulled a zero memory total with a non-zero
\* numerator, and a non-zero swap total with a zero numerator.
C9_Witness ==
    /\ C9_Refreshed
    /\ sysRead.vm[2] = 0 /\ sysRead.vm[1] # 0
    /\ sysRead.swap[2] # 0 /\ sysRead.swap[1] = 0
    /\ SysCache["VM_PERCENT"] = "0.00%"
    /\ SysCache["SWAP_PERCENT"] = "0.0%"

\* C10: make_all_report returns only after every submitted report job has
\* finished, and every job has then run its renderer to its exit, whatever
\* the exit codes of the other jobs.
C10_JoinAfterAllJobs ==
    rPc = "returned" =>
       /\ Submitted = rPids
       /\ \A p \in Submitted :
             /\ rJobs[p].st = "done"
             /\ rJobs[p].retv \in RetCodes
             /\ rJobs[p].log \in {"removed", "closed"}

\* C10 witness: make_all_report has returned, with a job that failed and a
\* job that succeeded among at least three jobs.
C10_Witness ==
    /\ rPc = "returned"
    /\ Cardinality(Submitted) >= 3
    /\ \E p \in Submitted : rJobs[p].retv # 0
    /\ \E p \in Submitted : rJobs[p].retv = 0

\* C11: make_all_report queues exactly one report job per entity: one for
\* each id of the caller's set and one for the system id 0, whether or not
\* the caller's set held 0, and no job for any other id; a started job runs
\* the system script for id 0 and the process script with --pid <id> otherwise.
C11_OneJobPerEntity ==
    rPc \in {"appended", "started", "returned"} =>
       /\ \A p \in ReportPids :
             QueueCount(rQueue, p) = IF p \in rGiven \cup {0} THEN 1 ELSE 0
       /\ Submitted = rGiven \cup {0}
       /\ \A p \in Submitted :
             rJobs[p].st \in {"running", "done"} =>
                /\ rJobs[p].script =
                      (IF p = 0 THEN "make_system_report.R" ELSE "make_process_report.R")
                /\ rJobs[p].pidarg = (IF p = 0 THEN "" ELSE ToString(p))

\* C11 witness: the caller's set did not hold 0; the system report and two
\* process reports have been rendered.
C11_Witness ==
    /\ rPc = "returned"
    /\ 0 \notin rGiven
    /\ Cardinality(rGiven) >= 2
    /\ rJobs[0].script = "make_system_report.R"
    /\ \A p \in rGiven : rJobs[p].st = "done" /\ rJobs[p].pidarg = ToString(p)

\* C12: once a report job has finished, its log file is retained if and only
\* if the renderer's exit code was not 0: exit code 0 removes the file and
\* logs no error, any other exit code logs an error and leaves the file.
C12_LogKeptIffFailed ==
    \A p \in ReportPids :
       rJobs[p].st = "done" =>
          /\ (rJobs[p].log = "closed") <=> (rJobs[p].retv # 0)
          /\ (rJobs[p].log = "removed") <=> (rJobs[p].retv = 0)
          /\ rJobs[p].error <=> (rJobs[p].retv # 0)

\* C12 witness: one job's renderer failed and its log file is kept, another
\* job's renderer succeeded and its log file is gone.
C12_Witness ==
    \E p, q \in ReportPids :
       /\ rJobs[p].st = "done" /\ rJobs[p].retv # 0 /\ rJobs[p].log = "closed"
       /\ rJobs[q].st = "done" /\ rJobs[q].retv = 0 /\ rJobs[q].log = "removed"
       /\ rJobs[p].error /\ ~rJobs[q].error

\* C13: a construction of a process Dispatcher that fails because the process
\* is gone (at the existence check, or while the registry line, environment
\* or memory-map snapshot is written) leaves the registry as it was before
\* the attempt, starts no poller, and hands the error to the constructing
\* Dispatcher.
C13_VerifyBeforeRegister ==
    [][\A n \in 1..Len(disp') :
          (n \notin DispIds /\ disp'[n].pc = "failed") =>
             /\ registry' = registry
             /\ disp'[n].tracers = "none"
             /\ disp'[disp'[n].creator].pc = "term"]_vars

\* C14: the check-and-spawn-child sequence is serialized: at most one process
\* Dispatcher is inside _detect_process at any instant and it holds the scan
\* mutex; between a Dispatcher's test "child id not in the active ids" and the
\* registration made by the child's constructor no other Dispatcher enters or
\* advances a scan, and nobody else registers an id.
InDetect == {d \in DispIds : disp[d].pc \in {"scan", "attach"}}

C14_ScanSerialized ==
    /\ [](/\ Cardinality(InDetect) <= 1
          /\ \A d \in InDetect : mutex = d /\ disp[d].kind = "proc"
          /\ InDetect = {} => mutex = NoDisp)
    /\ [][\A d \in DispIds :
            disp[d].pc = "attach" =>
               /\ \A e \in DispIds \ {d} :
                     /\ disp'[e].pc \notin {"scan", "attach"}
                     /\ disp'[e].todo = disp[e].todo
               /\ registry' # registry =>
                     \/ disp'[d].pc # "attach"
                     \/ \E e \in DispIds : disp[e].pc = "ending" /\ disp'[e].pc = "done"]_vars

\* C14 witness: a Dispatcher has tested a child and is about to construct its
\* Dispatcher while another process Dispatcher waits for the scan mutex.
C14_Witness ==
    \E d, e \in ProcDisps :
       /\ d # e
       /\ disp[d].pc = "attach"
       /\ disp[e].pc = "lock"
       /\ Alive(disp[e].pid)
       /\ Children(disp[e].pid) # <<>>

\* C15: teardown of a process Dispatcher is ordered and local: its Poller Pool
\* is stopped and joined before it leaves the registry; stopping the pool
\* does not touch the child Dispatchers it spawned, and the teardown never
\* waits for a child Dispatcher that is still running.
C15_TeardownOrder ==
    /\ [](\A d \in ProcDisps :
            /\ disp[d].pc \in {"ending", "done"} => disp[d].tracers = "stopped"
            /\ (disp[d].tracers # "stopped" /\ disp[d].pc # "failed") =>
                  registry[disp[d].pid] = d
            /\ disp[d].pc = "join" => \A e \in ProcDisps : disp[e].creator = d => ~IsRunning(e))
    /\ [][\A d \in ProcDisps :
            (disp[d].pc = "term" /\ disp'[d].pc # "term") =>
               \A e \in DispIds \ {d} : disp'[e] = disp[e]]_vars

\* C16: cancellation is cooperative.  Setting a Dispatcher's termination flag
\* changes nothing else of it (a cycle is not interrupted); a Dispatcher at
\* the top of its loop with the flag set starts no further cycle (no cache
\* refresh, no child scan); a Dispatcher inside a cycle goes on with that
\* cycle whatever the flag; and a Dispatcher whose flag is set eventually
\* leaves its RUNNING loop.
LoopPcs == {"loop", "lock", "scan", "attach"}

C16_FlagSetOnly(d) ==
    (~disp[d].should_exit /\ disp'[d].should_exit) =>
       disp'[d] = [disp[d] EXCEPT !.should_exit = TRUE]

C16_NoFurtherCycle(d) ==
    (disp[d].should_exit /\ disp[d].pc = "loop" /\ disp'[d] # disp[d]) =>
       /\ disp'[d].pc = IF disp[d].kind = "proc" THEN "term" ELSE "done"
       /\ disp'[d].frontend = disp[d].frontend
       /\ disp'[d].cached = disp[d].cached
       /\ disp'[d].todo = disp[d].todo

C16_CycleGoesOn(d) ==
    /\ (disp[d].pc = "scan" /\ disp'[d].pc # "scan") =>
          \/ disp'[d].pc = "attach"
          \/ disp'[d].pc = "loop" /\ disp[d].todo = <<>>
    /\ (disp[d].pc \in {"lock", "attach"} /\ disp'[d].pc = "term") =>
          \/ ~Alive(disp[d].pid)
          \/ \E n \in 1..Len(disp') : n \notin DispIds /\ disp'[n].pc = "failed"

C16_FlaggedInLoop(d) ==
    IF d \in DispIds THEN disp[d].should_exit /\ disp[d].pc \in LoopPcs ELSE FALSE

C16_OutOfLoop(d) ==
    IF d \in DispIds THEN disp[d].pc \notin LoopPcs ELSE FALSE

C16_CooperativeCancel ==
    /\ [][\A d \in DispIds :
            C16_FlagSetOnly(d) /\ C16_NoFurtherCycle(d) /\ C16_CycleGoesOn(d)]_vars
    /\ \A d \in 1..MaxDisp : C16_FlaggedInLoop(d) ~> C16_OutOfLoop(d)

\* C16 witness: a process Dispatcher whose flag was set in the middle of a
\* child scan has left its loop and torn down, after having completed that
\* cycle by attaching a child whose Dispatcher was never flagged.
C16_Witness ==
    \E d, e \in ProcDisps :
       /\ disp[d].should_exit
       /\ disp[d].pc \in {"term", "join"}
       /\ disp[e].creator = d
       /\ disp[e].pc \in LoopPcs
       /\ ~disp[e].should_exit

\* C17: the system Dispatcher never scans for children and never constructs
\* a Dispatcher; it registers itself exactly once, under the system id; it
\* writes the mounted-volumes snapshot once, at construction, before its
\* pollers are started; and it leaves its loop only with its flag set.
SysDisps == {d \in DispIds : disp[d].kind = "sys"}

C18_IsPower(q) == q # <<>> /\ q[Len(q)] = 1 /\ \A i \in 1..(Len(q) - 1) : q[i] = 0

\* the number of k >= 1 with num > base^k
C18_PowersExceeded(q) ==
    IF Len(q) <= 1 THEN 0
    ELSE IF C18_IsPower(q) THEN Len(q) - 2
    ELSE Len(q) - 1

C18_ScalingBounded ==
    hrOut.out # HRPending =>
       IF hrOut.base \in {1000, 1024}
         THEN /\ hrOut.out.error = ""
              /\ hrOut.out.step \in 0..6
              /\ hrOut.out.step <= C18_PowersExceeded(hrOut.num)
              /\ \/ hrOut.out.step = 6
                 \/ hrOut.out.step = C18_PowersExceeded(hrOut.num)
                 \/ Len(hrOut.num) > 6 /\ hrOut.out.step = C18_PowersExceeded(hrOut.num) - 1
              /\ hrOut.out.dc = dc_list(hrOut.base)[hrOut.out.step + 1]
         ELSE /\ hrOut.out.error = "ValueError"
              /\ hrOut.out.dc = ""

\* C18 witness: an input above base^7 came out in the last unit after 6
\* divisions.
C18_Witness ==
    /\ hrOut.out # HRPending
    /\ hrOut.base = 1024
    /\ Len(hrOut.num) = 8
    /\ ~C18_IsPower(hrOut.num)
    /\ hrOut.out.step = 6
    /\ hrOut.out.dc = "EiB"

\* C19: a probe with a reading appends exactly one row, the timestamp
\* followed by one value per logical core (as many columns as the header),
\* and replaces the cached percentage by the mean of the reading; a probe
\* whose reading is None appends no row and leaves the cached value as it was.
C19_RowShape ==
    \A i \in 1..Len(cpuTracer.rows) :
       /\ Len(cpuTracer.rows[i]) = Len(cpuTracer.header)
       /\ cpuTracer.rows[i][1] \in 1..cpuTracer.clock
       /\ \A j \in 1..(i - 1) : cpuTracer.rows[j][1] < cpuTracer.rows[i][1]

C19_ProbeStep ==
    cpuTracer'.clock # cpuTracer.clock =>
       IF cpuTracer'.reading.none
         THEN /\ cpuTracer'.rows = cpuTracer.rows
              /\ cpuTracer'.cached = cpuTracer.cached
         ELSE /\ Len(cpuTracer'.rows) = Len(cpuTracer.rows) + 1
              /\ SubSeq(cpuTracer'.rows, 1, Len(cpuTracer.rows)) = cpuTracer.rows
              /\ cpuTracer'.rows[Len(cpuTracer'.rows)] =
                    <<cpuTracer'.clock>> \o cpuTracer'.reading.v
              /\ cpuTracer'.cached.den > 0
              /\ cpuTracer'.cached.num * NCores =
                    cpuTracer'.cached.den * SeqSum(cpuTracer'.reading.v)

C19_ProbeAppendsAndCaches ==
    /\ [](C19_RowShape /\ cpuTracer.header = cpu_name_array)
    /\ [][C19_ProbeStep]_vars

\* C19 witness: after a reading with different per-core values and then a
\* None reading, the log has one row per reading and the cached value is the
\* mean of the last reading.
C19_Witness ==
    /\ cpuTracer.clock = 3
    /\ Len(cpuTracer.rows) = 2
    /\ cpuTracer.reading.none
    /\ cpuTracer.rows[2][1] = 2
    /\ cpuTracer.rows[2][2] # cpuTracer.rows[2][3]
    /\ cpuTracer.cached.num * NCores = cpuTracer.cached.den * SeqSum(Tail(cpuTracer.rows[2]))
    /\ cpuTracer.cached.num # SeqSum(Tail(cpuTracer.rows[2]))

\* C20: from_dir takes the global extent of the logs.  Over the files whose
\* name does not contain "resampled" and that have a TIME column with rows,
\* time_start is the smallest first timestamp and time_end the largest last
\* timestamp; every other file is skipped; when no file yields timestamps
\* from_dir raises ValueError and builds no grid.
C20_Yielding ==
    {i \in 1..Len(rsc.files) :
        ~rsc.files[i].named_resampled /\ rsc.files[i].kind = "rows"}

C20_GlobalExtent ==
    rsc.out # RscPending =>
       IF C20_Yielding = {}
         THEN rsc.out.error \in {"ValueError", "EmptyDataError"} /\ rsc.out.index = <<>>
         ELSE /\ rsc.out.error = ""
              /\ \E i \in C20_Yielding : rsc.out.time_start = rsc.files[i].times[1]
              /\ \A i \in C20_Yielding : rsc.out.time_start <= rsc.files[i].times[1]
              /\ \E i \in C20_Yielding :
                    rsc.out.time_end = rsc.files[i].times[Len(rsc.files[i].times)]
              /\ \A i \in C20_Yielding :
                    rsc.out.time_end >= rsc.files[i].times[Len(rsc.files[i].times)]

\* C21: the two mutexes cannot deadlock and are never left held.  The holder
\* of _DISPATCHER_MUTEX is inside its child scan (not sleeping, not torn
\* down, not dead); the holder of _REG_MUTEX is the holder of
\* _DISPATCHER_MUTEX, inside a child constructor; nobody acquires
\* _DISPATCHER_MUTEX while it holds either mutex; a scan that ends, normally
\* or by an exception, leaves both free; and every Dispatcher waiting to scan
\* eventually scans or finds its entity gone.
ScanPcs == {"scan", "attach", "reg"}

C21_HeldOnlyInScan ==
    /\ mutex # NoDisp => (mutex \in DispIds /\ disp[mutex].pc \in ScanPcs)
    /\ \A d \in DispIds : disp[d].pc \in ScanPcs => mutex = d
    /\ regMutex # NoDisp => (regMutex = mutex /\ disp[regMutex].pc = "reg")

C21_AcquireStep(d) ==
    (disp[d].pc = "lock" /\ disp'[d].pc # "lock") =>
       /\ mutex = NoDisp
       /\ regMutex = NoDisp
       /\ disp'[d].pc \in {"scan", "term"}

C21_ReleaseStep(d) ==
    (disp[d].pc \in ScanPcs /\ disp'[d].pc \notin ScanPcs) =>
       /\ mutex' = NoDisp
       /\ regMutex' = NoDisp
       /\ disp'[d].pc \in {"loop", "term", "crashed"}

C21_Waiting(d) == IF d \in DispIds THEN disp[d].pc = "lock" ELSE FALSE

C21_Scans(d) == IF d \in DispIds THEN disp[d].pc \in {"scan", "term"} ELSE FALSE

C21_MutexesNeverStuck ==
    /\ []C21_HeldOnlyInScan
    /\ [][\A d \in DispIds : C21_AcquireStep(d) /\ C21_ReleaseStep(d)]_vars
    /\ \A d \in 1..MaxDisp : C21_Waiting(d) ~> C21_Scans(d)

\* C21 witness: the root Dispatcher's thread holds both mutexes, inside the
\* constructor of a child, while another Dispatcher waits to scan.
C21_Witness ==
    \E d, e \in DispIds :
       /\ mutex = d
       /\ regMutex = d
       /\ disp[e].pc = "lock"

\* C22: a Dispatcher's frontend cache keeps the key set its _setup_cache gave
\* it.  In every state, between any two item assignments of a refresh
\* included, a process Dispatcher's cache has exactly the nine process keys
\* and the system Dispatcher's cache exactly the nine system keys; no step
\* changes PID, PPID or NAME of a process Dispatcher's cache, and PID stays
\* the id the Dispatcher was constructed for.
C22_ProcKeys ==
    {"PID", "PPID", "NAME", "CPU%", "STAT", "CPU_TIME", "RESIDENT_MEM", "NUM_THREADS",
     "NUM_CHILD_PROCESS"}

C22_SysKeys ==
    {"CPU%", "VM_AVAIL", "VM_TOTAL", "VM_PERCENT", "BUFFERED", "SHARED", "SWAP_AVAIL",
     "SWAP_TOTAL", "SWAP_PERCENT"}

C22_IdentityKeys == {"PID", "PPID", "NAME"}

C22_KeysPresent ==
    \A d \in {e \in DispIds : disp[e].pc # "failed"} :
       /\ DOMAIN disp[d].frontend =
             (IF disp[d].kind = "proc" THEN C22_ProcKeys ELSE C22_SysKeys)
       /\ disp[d].kind = "proc" => disp[d].frontend["PID"] = ToString(disp[d].pid)

C22_IdentityKept ==
    \A d \in DispIds :
       /\ DOMAIN disp'[d].frontend = DOMAIN disp[d].frontend
       /\ disp[d].kind = "proc" =>
             \A k \in C22_IdentityKeys : disp'[d].frontend[k] = disp[d].frontend[k]

C22_FixedKeySet == []C22_KeysPresent /\ [][C22_IdentityKept]_vars

\* C22 witness: a process Dispatcher is in the middle of a refresh that has
\* rewritten the CPU time and not yet the status, after its process was
\* handed to another parent; the system Dispatcher's cache has been refreshed.
C22_Witness ==
    \E d, e \in DispIds :
       /\ disp[d].kind = "proc"
       /\ disp[d].pc = "refresh"
       /\ refresh[d] \in 1..(ProcCacheAssigns - 1)
       /\ disp[d].frontend["CPU_TIME"] # ToString(0)
       /\ disp[d].frontend["STAT"] = "NA"
       /\ disp[d].frontend["PPID"] # ToString(parent[disp[d].pid])
       /\ disp[e].kind = "sys"
       /\ disp[e].frontend["VM_TOTAL"] # "NA"

====
